---- MODULE Spec2Model ----
(***************************************************************************)
(* A model of PyCoulomb's stress computation (src/PyCoulomb/run_dc3d.py,   *)
(* conversion_math.py, coulomb_collections.py).                            *)
(*                                                                         *)
(* Numbers.  The program computes with floating point.  Coordinates and    *)
(* depths are modelled on a lattice: a value is an integer number of       *)
(* lattice units, sums, differences and products of lattice values are     *)
(* exact, and a quotient or a product with a sine or cosine that does not  *)
(* land on the lattice is rounded to the nearest lattice point, as a       *)
(* floating point operation rounds to the nearest representable number.    *)
(* Angles are whole degrees, multiples of 45, with sine and cosine given   *)
(* in thousandths.  Values returned by the dislocation solver are decimal  *)
(* numbers m * 10^e, so that the unit corrections (1e-9, 1e-6, 1e-3) are   *)
(* exact shifts of the exponent.                                           *)
(***************************************************************************)
EXTENDS Integers, Sequences, FiniteSets, TLC

VARIABLES
    params,             \* the Params tuple of the run
    inputs,             \* the Input_object of the run
    disp_points,        \* list of Displacement_points given to the run
    strain_points,      \* strain points given to the run (None or lon/lat lists)
    pc,                 \* the statement of do_stress_computation being executed
    error,              \* "none", or the exception that ended the run
    subfaulted_inputs,  \* result of split_subfault_receivers (None before)
    obs,                \* x/y points the running mode loops over
    pt,                 \* index into obs of the point being computed
    src,                \* index of the next source in compute_surface_disp_point
    acc,                \* u_disp, v_disp, w_disp, strain_tensor_total of that point
    grid,               \* result of compute_grid_def (None before)
    model_disp_points,  \* result of compute_ll_def
    strain_tensor_results, \* result of compute_ll_strain
    receiver_stresses,  \* result of compute_strains_stresses (None before)
    out,                \* MyOutObject (None until returned)
    last_eval,          \* the latest call of compute_strains_stresses_from_one_fault
    n_evals,            \* number of calls of compute_strains_stresses_from_one_fault
    n_resolver_calls,   \* number of calls of get_coulomb_stresses
    args,               \* arguments of a function applied on its own (else None)
    returned,           \* what that function returned (None before)
    solver_failed       \* some solver call of the run returned success # 0

vars == <<params, inputs, disp_points, strain_points, pc, error,
          subfaulted_inputs, obs, pt, src, acc, grid, model_disp_points,
          strain_tensor_results, receiver_stresses, out, last_eval, n_evals,
          n_resolver_calls, solver_failed, args, returned>>

\* Python's None, where a tuple or an object may stand instead
None == [is_None |-> TRUE]

\* ------------------------------------------------------------------------
\* Bounds of the model
\* ------------------------------------------------------------------------
MaxReceivers == 2
MaxSplit == 3
MaxSources == 2
MaxFaultDicts == 2
MaxDelta == 5

\* ------------------------------------------------------------------------
\* Lattice arithmetic
\* ------------------------------------------------------------------------
Abs(a) == IF a < 0 THEN -a ELSE a

\* a / b rounded to the nearest lattice point (half away from zero); b # 0
RoundDiv(a, b) ==
    LET n == IF b > 0 THEN a ELSE -a
        d == Abs(b)
    IN  IF n >= 0 THEN (2 * n + d) \div (2 * d)
                  ELSE -((2 * (-n) + d) \div (2 * d))

\* ceil(a / b), the exact ceiling of the quotient; b # 0
CeilDiv(a, b) ==
    LET n == IF b > 0 THEN a ELSE -a
        d == Abs(b)
    IN  IF n >= 0 THEN (n + d - 1) \div d
                  ELSE -((-n) \div d)

\* sin and cos of an angle in degrees (a multiple of 45), in thousandths
NormDeg(a) == ((a % 360) + 360) % 360

SinMilli(a) ==
    LET d == NormDeg(a)
    IN  CASE d = 0   -> 0
          [] d = 45  -> 707
          [] d = 90  -> 1000
          [] d = 135 -> 707
          [] d = 180 -> 0
          [] d = 225 -> -707
          [] d = 270 -> -1000
          [] d = 315 -> -707

CosMilli(a) == SinMilli(a + 90)

\* v * t, t a sine or cosine in thousandths, rounded to the lattice
MulTrig(v, t) == RoundDiv(v * t, 1000)

\* numpy.arange(start, stop, step): ceil((stop-start)/step) values start + i*step
np_arange(start, stop, step) ==
    IF step = 0 THEN <<>>
    ELSE LET n == CeilDiv(stop - start, step)
         IN  IF n <= 0 THEN <<>> ELSE [i \in 1..n |-> start + (i - 1) * step]

\* ------------------------------------------------------------------------
\* Decimal arithmetic: <<m, e>> is m * 10^e, normalised (no trailing zeros)
\* ------------------------------------------------------------------------
RECURSIVE DecNorm(_, _)
DecNorm(m, e) ==
    IF m = 0 THEN <<0, 0>>
    ELSE IF m % 10 = 0 THEN DecNorm(m \div 10, e + 1)
    ELSE <<m, e>>

RECURSIVE Pow10(_)
Pow10(k) == IF k = 0 THEN 1 ELSE 10 * Pow10(k - 1)

Dec(n) == DecNorm(n, 0)

DecAdd(a, b) ==
    IF a[1] = 0 THEN b
    ELSE IF b[1] = 0 THEN a
    ELSE LET e == IF a[2] < b[2] THEN a[2] ELSE b[2]
         IN  DecNorm(a[1] * Pow10(a[2] - e) + b[1] * Pow10(b[2] - e), e)

DecMul(a, b) == DecNorm(a[1] * b[1], a[2] + b[2])

\* a decimal times -1
DecNeg(a) == <<-a[1], a[2]>>

\* a / n for a whole number n > 0, rounded at the third further digit (half
\* away from zero): the whole part of the quotient and the rounded rest
DecDiv(a, n) ==
    LET m == Abs(a[1])
        q == (m \div n) * 1000 + RoundDiv((m % n) * 1000, n)
    IN  DecNorm(IF a[1] < 0 THEN -q ELSE q, a[2] - 3)

\* a sine or cosine in thousandths as a decimal
DecTrig(t) == DecNorm(t, -3)

VecDec(v) == [i \in 1..Len(v) |-> Dec(v[i])]
MatDec(A) == [i \in 1..3 |-> [j \in 1..3 |-> Dec(A[i][j])]]

\* numpy.zeros((3, 3))
ZeroMat == [i \in 1..3 |-> [j \in 1..3 |-> Dec(0)]]

MatAdd(A, B) == [i \in 1..3 |-> [j \in 1..3 |-> DecAdd(A[i][j], B[i][j])]]

MatScale(A, c) == [i \in 1..3 |-> [j \in 1..3 |-> DecMul(A[i][j], c)]]

VecScale(v, c) == [i \in 1..3 |-> DecMul(v[i], c)]

Transpose(A) == [i \in 1..3 |-> [j \in 1..3 |-> A[j][i]]]

\* numpy.dot of two 3x3 arrays
MatMul(A, B) ==
    [i \in 1..3 |-> [j \in 1..3 |->
        DecAdd(DecAdd(DecMul(A[i][1], B[1][j]), DecMul(A[i][2], B[2][j])),
               DecMul(A[i][3], B[3][j]))]]

\* numpy.dot of a 3x3 array and a 3-vector
MatVec(A, v) ==
    [i \in 1..3 |->
        DecAdd(DecAdd(DecMul(A[i][1], v[1]), DecMul(A[i][2], v[2])),
               DecMul(A[i][3], v[3]))]

\* numpy.dot of two 3-vectors
Dot(a, b) ==
    DecAdd(DecAdd(DecMul(a[1], b[1]), DecMul(a[2], b[2])),
           DecMul(a[3], b[3]))

\* numpy.trace of a 3x3 array
np_trace(A) == DecAdd(DecAdd(A[1][1], A[2][2]), A[3][3])

\* the nearest lattice point to the square root of n >= 0
RECURSIVE SqrtFloor(_, _, _)
SqrtFloor(n, lo, hi) ==
    IF lo >= hi THEN lo
    ELSE LET mid == (lo + hi + 1) \div 2
         IN  IF mid * mid <= n THEN SqrtFloor(n, mid, hi)
                               ELSE SqrtFloor(n, lo, mid - 1)

RoundSqrt(n) ==
    LET r == SqrtFloor(n, 0, IF n < 40000 THEN n ELSE 40000)
    IN  IF n - r * r > r THEN r + 1 ELSE r

\* ------------------------------------------------------------------------
\* Tectonic_Utils.geodesy.fault_vector_functions, as called by the program
\* ------------------------------------------------------------------------
\* W = abs(top - bottom) / sin(dip)
get_downdip_width(top, bottom, dip) ==
    RoundDiv(Abs(top - bottom) * 1000, SinMilli(dip))

\* the point at distance vector_mag from (x0, y0), heading clockwise from north
add_vector_to_point(x0, y0, vector_mag, vector_heading) ==
    <<x0 + MulTrig(vector_mag, CosMilli(90 - vector_heading)),
      y0 + MulTrig(vector_mag, SinMilli(90 - vector_heading))>>

\* L = sqrt((x1 - x0)^2 + (y1 - y0)^2)
get_strike_length(x0, x1, y0, y1) ==
    RoundSqrt((x1 - x0) * (x1 - x0) + (y1 - y0) * (y1 - y0))

\* lon/lat to local x/y about the reference point (111 lattice units a degree)
latlon2xy(lon, lat, zerolon, zerolat) ==
    <<111 * (lon - zerolon), 111 * (lat - zerolat)>>

\* ------------------------------------------------------------------------
\* coulomb_collections: the named tuples
\* ------------------------------------------------------------------------
FaultsFields ==
    {"xstart", "xfinish", "ystart", "yfinish", "Kode", "zerolon", "zerolat",
     "rtlat", "reverse", "tensile", "potency", "strike", "dipangle", "rake",
     "top", "bottom", "comment"}

Faults_object(xstart, xfinish, ystart, yfinish, Kode, rtlat, reverse, tensile, potency, strike, dipangle, zerolon, zerolat, rake, top, bottom, comment) ==
    [xstart |-> xstart, xfinish |-> xfinish, ystart |-> ystart,
     yfinish |-> yfinish, Kode |-> Kode, zerolon |-> zerolon,
     zerolat |-> zerolat, rtlat |-> rtlat, reverse |-> reverse,
     tensile |-> tensile, potency |-> potency, strike |-> strike,
     dipangle |-> dipangle, rake |-> rake, top |-> top, bottom |-> bottom,
     comment |-> comment]

\* ------------------------------------------------------------------------
\* run_dc3d: the subfault splitter
\* ------------------------------------------------------------------------
\* variant without the branch for top = bottom
get_split_z_array_always_arange(top, bottom, dip_split) ==
    LET zincrement == RoundDiv(Abs(top - bottom), dip_split)
    IN  np_arange(top, bottom + zincrement, zincrement)

get_split_z_array(top, bottom, dip_split) ==
    IF top = bottom
    THEN [j \in 1..(dip_split + 1) |-> top]
    ELSE LET zincrement == RoundDiv(Abs(top - bottom), dip_split)
         IN  np_arange(top, bottom + zincrement, zincrement)

get_split_array(start_top, finish_top, strike_split) ==
    IF start_top = finish_top
    THEN [j \in 1..(strike_split + 1) |-> start_top]
    ELSE LET increment == RoundDiv(finish_top - start_top, strike_split)
         IN  np_arange(start_top, finish_top + increment, increment)

get_split_x_y_arrays(start_x_top, finish_x_top, start_y_top, finish_y_top, strike_split) ==
    <<get_split_array(start_x_top, finish_x_top, strike_split),
      get_split_array(start_y_top, finish_y_top, strike_split)>>

\* The top-edge end points of dip row j (0-based) of a receiver, and the
\* along-strike split arrays of that row (the body of the loop over j).
row_split_arrays(fault, zsplit_array, j, strike_split) ==
    LET W == get_downdip_width(fault.top, zsplit_array[j + 1], fault.dipangle)
        vector_mag == MulTrig(W, CosMilli(fault.dipangle))
        start_top == add_vector_to_point(fault.xstart, fault.ystart,
                                         vector_mag, fault.strike + 90)
        finish_top == add_vector_to_point(fault.xfinish, fault.yfinish,
                                          vector_mag, fault.strike + 90)
    IN  get_split_x_y_arrays(start_top[1], finish_top[1], start_top[2],
                             finish_top[2], strike_split)

\* The sub-patch of dip row j and strike segment k (both 0-based).
single_subfaulted_receiver(fault, zerolon, zerolat, strike_split, dip_split, j, k) ==
    LET zsplit_array == get_split_z_array(fault.top, fault.bottom, dip_split)
        xy == row_split_arrays(fault, zsplit_array, j, strike_split)
    IN  Faults_object(xy[1][k + 1], xy[1][k + 2], xy[2][k + 1], xy[2][k + 2],
                      fault.Kode, 0, 0, 0, <<>>, fault.strike, fault.dipangle,
                      zerolon, zerolat, fault.rake, zsplit_array[j + 1],
                      zsplit_array[j + 2], fault.comment)

\* An index of the split arrays is out of range (IndexError in the loops).
split_index_error(fault, strike_split, dip_split) ==
    LET zsplit_array == get_split_z_array(fault.top, fault.bottom, dip_split)
    IN  \/ Len(zsplit_array) < dip_split + 1
        \/ \E j \in 0..(dip_split - 1) :
              LET xy == row_split_arrays(fault, zsplit_array, j, strike_split)
              IN  \/ Len(xy[1]) < strike_split + 1
                  \/ Len(xy[2]) < strike_split + 1

\* The sub-patches of one receiver, dip rows outermost, in append order.
subfaults_of(fault, zerolon, zerolat, strike_split, dip_split) ==
    [n \in 1..(dip_split * strike_split) |->
        single_subfaulted_receiver(fault, zerolon, zerolat, strike_split,
                                   dip_split, (n - 1) \div strike_split,
                                   (n - 1) % strike_split)]

RECURSIVE Flatten(_)
Flatten(seqs) ==
    IF seqs = <<>> THEN <<>> ELSE Head(seqs) \o Flatten(Tail(seqs))

\* variant whose pass-through branch leaves the new list empty
subfaulted_receivers_not_appended(p, inp) ==
    IF p.strike_num_receivers = 1 /\ p.dip_num_receivers = 1
    THEN <<>>
    ELSE Flatten([i \in 1..Len(inp.receiver_object) |->
                    subfaults_of(inp.receiver_object[i], inp.zerolon,
                                 inp.zerolat, p.strike_num_receivers,
                                 p.dip_num_receivers)])

\* variant that passes the receivers through when either split count is 1
subfaulted_receivers_either_one(p, inp) ==
    IF p.strike_num_receivers = 1 \/ p.dip_num_receivers = 1
    THEN inp.receiver_object
    ELSE Flatten([i \in 1..Len(inp.receiver_object) |->
                    subfaults_of(inp.receiver_object[i], inp.zerolon,
                                 inp.zerolat, p.strike_num_receivers,
                                 p.dip_num_receivers)])

subfaulted_receivers(p, inp) ==
    IF p.strike_num_receivers = 1 /\ p.dip_num_receivers = 1
    THEN inp.receiver_object
    ELSE Flatten([i \in 1..Len(inp.receiver_object) |->
                    subfaults_of(inp.receiver_object[i], inp.zerolon,
                                 inp.zerolat, p.strike_num_receivers,
                                 p.dip_num_receivers)])

split_raises(p, inp) ==
    /\ ~(p.strike_num_receivers = 1 /\ p.dip_num_receivers = 1)
    /\ \E i \in 1..Len(inp.receiver_object) :
          split_index_error(inp.receiver_object[i], p.strike_num_receivers,
                            p.dip_num_receivers)

\* split_subfault_receivers building the bundle without the sources
split_subfault_receivers_without_sources(p, inp) ==
    [inp EXCEPT !.receiver_object = subfaulted_receivers(p, inp),
                !.source_object = <<>>]

\* The returned bundle: every field of inputs, receiver_object replaced.
split_subfault_receivers(p, inp) ==
    [inp EXCEPT !.receiver_object = subfaulted_receivers(p, inp)]

\* ------------------------------------------------------------------------
\* okada_wrapper: what dc3dwrapper / dc3d0wrapper may return, (success, u,
\* grad_u); success is 0 when the solution exists, nonzero when the solver
\* reports a singular or invalid point (u and grad_u are then zero)
\* ------------------------------------------------------------------------
SolverOutcomes ==
    { [success |-> 0, u |-> VecDec(<<1, 2, 3>>),
       grad_u |-> MatDec(<<<<1, 2, 0>>, <<4, 0, 0>>, <<0, 6, 3>>>>)],
      [success |-> 1, u |-> VecDec(<<0, 0, 0>>), grad_u |-> ZeroMat] }

\* ------------------------------------------------------------------------
\* conversion_math
\* ------------------------------------------------------------------------
\* variant that adds dUidUj[i][j] to itself
get_strain_tensor_same_index(dUidUj) ==
    [i \in 1..3 |-> [j \in 1..3 |->
        DecMul(<<5, -1>>, DecAdd(dUidUj[i][j], dUidUj[i][j]))]]

get_strain_tensor(dUidUj) ==
    [i \in 1..3 |-> [j \in 1..3 |->
        DecMul(<<5, -1>>, DecAdd(dUidUj[i][j], dUidUj[j][i]))]]

\* variant whose trace counts eij[1][1] twice and leaves out eij[2][2]
get_stress_tensor_wrong_trace(eij, lamda, mu) ==
    [i \in 1..3 |-> [j \in 1..3 |->
        IF i = j
        THEN DecAdd(DecMul(lamda, DecAdd(DecAdd(eij[1][1], eij[2][2]),
                                         eij[2][2])),
                    DecMul(DecMul(Dec(2), mu), eij[i][j]))
        ELSE DecMul(DecMul(Dec(2), mu), eij[i][j])]]

get_stress_tensor(eij, lamda, mu) ==
    [i \in 1..3 |-> [j \in 1..3 |->
        IF i = j
        THEN DecAdd(DecMul(lamda, DecAdd(DecAdd(eij[1][1], eij[2][2]),
                                         eij[3][3])),
                    DecMul(DecMul(Dec(2), mu), eij[i][j]))
        ELSE DecMul(DecMul(Dec(2), mu), eij[i][j])]]

\* variant whose Coulomb stress is summed before the conversion to kPa
get_coulomb_stresses_internal_from_pa(tau, rec_strike_vector, rake, rec_dip_vector, rec_plane_normal, friction, B) ==
    LET traction_vector == MatVec(tau, rec_plane_normal)
        dry_normal_stress == Dot(rec_plane_normal, traction_vector)
        effective_normal_pa ==
            DecAdd(dry_normal_stress,
                   DecNeg(DecMul(DecDiv(np_trace(tau), 3), B)))
        shear_rtlat == Dot(rec_strike_vector, traction_vector)
        shear_reverse == Dot(rec_dip_vector, traction_vector)
        shear_in_rake_dir ==
            DecAdd(DecMul(DecTrig(CosMilli(rake)), shear_rtlat),
                   DecMul(DecTrig(-SinMilli(rake)), shear_reverse))
        effective_normal_stress == DecMul(effective_normal_pa, <<1, -3>>)
        shear_stress == DecMul(shear_in_rake_dir, <<1, -3>>)
        coulomb_stress == DecAdd(shear_in_rake_dir,
                                 DecMul(friction, effective_normal_pa))
    IN  <<effective_normal_stress, shear_stress, coulomb_stress>>

\* variant with clamping normal stress positive
get_coulomb_stresses_internal_clamping_positive(tau, rec_strike_vector, rake, rec_dip_vector, rec_plane_normal, friction, B) ==
    LET traction_vector == MatVec(tau, rec_plane_normal)
        dry_normal_stress == DecNeg(Dot(rec_plane_normal, traction_vector))
        effective_normal_pa ==
            DecAdd(dry_normal_stress,
                   DecNeg(DecMul(DecDiv(np_trace(tau), 3), B)))
        shear_rtlat == Dot(rec_strike_vector, traction_vector)
        shear_reverse == Dot(rec_dip_vector, traction_vector)
        shear_in_rake_dir ==
            DecAdd(DecMul(DecTrig(CosMilli(rake)), shear_rtlat),
                   DecMul(DecTrig(-SinMilli(rake)), shear_reverse))
        effective_normal_stress == DecMul(effective_normal_pa, <<1, -3>>)
        shear_stress == DecMul(shear_in_rake_dir, <<1, -3>>)
        coulomb_stress == DecAdd(shear_stress,
                                 DecMul(friction, effective_normal_stress))
    IN  <<effective_normal_stress, shear_stress, coulomb_stress>>

\* returns (effective_normal_stress, shear_stress, coulomb_stress) in kPa
get_coulomb_stresses_internal(tau, rec_strike_vector, rake, rec_dip_vector, rec_plane_normal, friction, B) ==
    LET traction_vector == MatVec(tau, rec_plane_normal)
        dry_normal_stress == Dot(rec_plane_normal, traction_vector)
        effective_normal_pa ==
            DecAdd(dry_normal_stress,
                   DecNeg(DecMul(DecDiv(np_trace(tau), 3), B)))
        shear_rtlat == Dot(rec_strike_vector, traction_vector)
        shear_reverse == Dot(rec_dip_vector, traction_vector)
        shear_in_rake_dir ==
            DecAdd(DecMul(DecTrig(CosMilli(rake)), shear_rtlat),
                   DecMul(DecTrig(-SinMilli(rake)), shear_reverse))
        effective_normal_stress == DecMul(effective_normal_pa, <<1, -3>>)
        shear_stress == DecMul(shear_in_rake_dir, <<1, -3>>)
        coulomb_stress == DecAdd(shear_stress,
                                 DecMul(friction, effective_normal_stress))
    IN  <<effective_normal_stress, shear_stress, coulomb_stress>>

\* the attributes of fault_object that get_fault_center reads
get_fault_center_attributes ==
    {"top", "bottom", "xstart", "xfinish", "ystart", "yfinish", "W",
     "dipangle", "strike"}

\* reading an attribute that the named tuple does not have
AttributeError(object, attributes) == ~(attributes \subseteq DOMAIN object)

get_fault_center(fault_object) ==
    LET center_z == RoundDiv(fault_object.top + fault_object.bottom, 2)
        updip_center_x == RoundDiv(fault_object.xstart + fault_object.xfinish, 2)
        updip_center_y == RoundDiv(fault_object.ystart + fault_object.yfinish, 2)
        vector_mag == RoundDiv(MulTrig(fault_object.W,
                                       CosMilli(fault_object.dipangle)), 2)
        center_point == add_vector_to_point(updip_center_x, updip_center_y,
                                            vector_mag,
                                            fault_object.strike + 90)
    IN  <<center_point[1], center_point[2], center_z>>

\* ------------------------------------------------------------------------
\* run_dc3d: the source evaluator
\* ------------------------------------------------------------------------
\* the horizontal rotation by theta degrees, identity on the z axis
Rotation(theta) ==
    <<<<DecTrig(CosMilli(theta)), DecTrig(-SinMilli(theta)), Dec(0)>>,
      <<DecTrig(SinMilli(theta)), DecTrig(CosMilli(theta)), Dec(0)>>,
      <<Dec(0), Dec(0), Dec(1)>>>>

\* R.dot(translated_pos) for a position on the lattice
RotatePosition(theta, pos) ==
    <<RoundDiv(CosMilli(theta) * pos[1] - SinMilli(theta) * pos[2], 1000),
      RoundDiv(SinMilli(theta) * pos[1] + CosMilli(theta) * pos[2], 1000),
      pos[3]>>

\* variant that passes the right-lateral slip and the observation z
\* without the sign changes
solver_call_unsigned(source, x, y, z, p) ==
    LET L == get_strike_length(source.xstart, source.xfinish, source.ystart,
                               source.yfinish)
        W == get_downdip_width(source.top, source.bottom, source.dipangle)
        theta == source.strike - 90
        translated_pos == <<x - source.xstart, y - source.ystart, z>>
        xyz == RotatePosition(theta, translated_pos)
    IN  IF source.potency # <<>>
        THEN [wrapper |-> "dc3d0wrapper", alpha |-> p.alpha, xyz |-> xyz,
              depth |-> source.top, dip |-> source.dipangle,
              potency |-> <<source.potency[1], source.potency[2],
                            source.potency[3], source.potency[4]>>]
        ELSE [wrapper |-> "dc3dwrapper", alpha |-> p.alpha, xyz |-> xyz,
              depth |-> source.top, dip |-> source.dipangle,
              strike_width |-> <<0, L>>, dip_width |-> <<-W, 0>>,
              dislocation |-> <<source.rtlat, source.reverse,
                                source.tensile>>]

\* The solver call the evaluator makes for source at (x, y, z): its wrapper
\* and arguments.
solver_call(source, x, y, z, p) ==
    LET L == get_strike_length(source.xstart, source.xfinish, source.ystart,
                               source.yfinish)
        W == get_downdip_width(source.top, source.bottom, source.dipangle)
        depth == source.top
        dip == source.dipangle
        strike_slip == source.rtlat * (-1)
        dip_slip == source.reverse
        theta == source.strike - 90
        translated_pos == <<x - source.xstart, y - source.ystart, -z>>
        xyz == RotatePosition(theta, translated_pos)
    IN  IF source.potency # <<>>
        THEN [wrapper |-> "dc3d0wrapper", alpha |-> p.alpha, xyz |-> xyz,
              depth |-> depth, dip |-> dip,
              potency |-> <<source.potency[1], source.potency[2],
                            source.potency[3], source.potency[4]>>]
        ELSE [wrapper |-> "dc3dwrapper", alpha |-> p.alpha, xyz |-> xyz,
              depth |-> depth, dip |-> dip, strike_width |-> <<0, L>>,
              dip_width |-> <<-W, 0>>,
              dislocation |-> <<strike_slip, dip_slip, source.tensile>>]

\* compute_strains_stresses_from_one_fault, given what the solver returned
\* (solved): the calls made, and the rotated, unit-corrected results.
compute_strains_stresses_from_one_fault(source, x, y, z, p, solved) ==
    LET theta == source.strike - 90
        R2 == Rotation(-theta)
        grad_u == IF source.potency # <<>>
                  THEN MatScale(solved.grad_u, <<1, -9>>)
                  ELSE MatScale(solved.grad_u, <<1, -3>>)
        u == IF source.potency # <<>>
             THEN VecScale(solved.u, <<1, -6>>)
             ELSE solved.u
    IN  [calls |-> <<solver_call(source, x, y, z, p)>>,
         desired_coords_grad_u |-> MatMul(R2, MatMul(grad_u, Transpose(R2))),
         desired_coords_u |-> MatVec(R2, u)]

\* ------------------------------------------------------------------------
\* run_dc3d: grid, point and strain modes
\* ------------------------------------------------------------------------
\* int(a / b) for a >= 0, b > 0 (truncation)
IntQuotient(a, b) == a \div b

\* numpy.linspace(start, stop, num), num >= 0
np_linspace(start, stop, num) ==
    IF num = 1 THEN <<start>>
    ELSE [i \in 1..num |->
            IF i = num THEN stop
            ELSE start + (i - 1) * RoundDiv(stop - start, num - 1)]

grid_x(inp) ==
    np_linspace(inp.start_gridx, inp.finish_gridx,
                IntQuotient(inp.finish_gridx - inp.start_gridx, inp.xinc))

grid_y(inp) ==
    np_linspace(inp.start_gridy, inp.finish_gridy,
                IntQuotient(inp.finish_gridy - inp.start_gridy, inp.yinc))

\* the nodes of numpy.meshgrid(x, y) in the order of the loops over ky, kx
grid_nodes(x, y) ==
    [n \in 1..(Len(y) * Len(x)) |->
        <<x[((n - 1) % Len(x)) + 1], y[((n - 1) \div Len(x)) + 1]>>]

\* numpy.zeros((len(y), len(x)))
zeros_2d(y, x) == [ky \in 1..Len(y) |-> [kx \in 1..Len(x) |-> Dec(0)]]

\* u_disp, v_disp, w_disp = 0, 0, 0 and strain_tensor_total = zeros((3, 3))
AccStart ==
    [u_disp |-> Dec(0), v_disp |-> Dec(0), w_disp |-> Dec(0),
     strain_tensor_total |-> ZeroMat, is_array |-> FALSE]

\* variant that keeps the last source's displacement instead of the sum
AccAdd_last_source(a, r) ==
    [u_disp |-> r.desired_coords_u[1],
     v_disp |-> r.desired_coords_u[2],
     w_disp |-> r.desired_coords_u[3],
     strain_tensor_total |->
         MatAdd(get_strain_tensor(r.desired_coords_grad_u),
                a.strain_tensor_total),
     is_array |-> TRUE]

\* the body of the loop over sources in compute_surface_disp_point
AccAdd(a, r) ==
    [u_disp |-> DecAdd(a.u_disp, r.desired_coords_u[1]),
     v_disp |-> DecAdd(a.v_disp, r.desired_coords_u[2]),
     w_disp |-> DecAdd(a.w_disp, r.desired_coords_u[3]),
     strain_tensor_total |->
         MatAdd(get_strain_tensor(r.desired_coords_grad_u),
                a.strain_tensor_total),
     is_array |-> TRUE]

Displacement_points(lon, lat, dE_obs, dN_obs, dU_obs, Se_obs, Sn_obs, Su_obs, name) ==
    [lon |-> lon, lat |-> lat, dE_obs |-> dE_obs, dN_obs |-> dN_obs,
     dU_obs |-> dU_obs, Se_obs |-> Se_obs, Sn_obs |-> Sn_obs,
     Su_obs |-> Su_obs, name |-> name]

\* ------------------------------------------------------------------------
\* run_dc3d: receiver-Coulomb mode
\* ------------------------------------------------------------------------
\* variant that reads the first receiver before testing for an empty list
compute_strains_stresses_indexing_first(p, inp) ==
    IF inp.receiver_object = <<>>
    THEN [raised |-> "IndexError"]
    ELSE IF AttributeError(inp.receiver_object[1], get_fault_center_attributes)
    THEN [raised |-> "AttributeError"]
    ELSE [raised |-> "none",
          centercoords |-> get_fault_center(inp.receiver_object[1])]

\* compute_strains_stresses: the three lists it returns, or the exception
\* it raises.  With receivers, the first statement of the loop body calls
\* get_fault_center(receiver), which reads receiver.W; a Faults_object has
\* no attribute W, so the call raises before any source is evaluated and
\* the rest of the loop body (lines 217-239) is reached by no input.
compute_strains_stresses(p, inp) ==
    IF inp.receiver_object = <<>>
    THEN [raised |-> "none", receiver_normal |-> <<>>,
          receiver_shear |-> <<>>, receiver_coulomb |-> <<>>]
    ELSE IF AttributeError(inp.receiver_object[1], get_fault_center_attributes)
    THEN [raised |-> "AttributeError"]
    ELSE [raised |-> "none",
          centercoords |-> get_fault_center(inp.receiver_object[1])]

\* The calls of get_coulomb_stresses it makes: the call is in the body of
\* the loop over the sources, once for each source of each receiver whose
\* center could be computed.
resolver_calls_made(p, inp) ==
    IF inp.receiver_object = <<>> THEN 0
    ELSE IF AttributeError(inp.receiver_object[1], get_fault_center_attributes)
    THEN 0
    ELSE Len(inp.receiver_object) * Len(inp.source_object)

Out_object(x, y, x2d, y2d, u_disp, v_disp, w_disp, strains, model_points, zerolon, zerolat, source_object, receiver_object, receiver_normal, receiver_shear, receiver_coulomb) ==
    [x |-> x, y |-> y, x2d |-> x2d, y2d |-> y2d, u_disp |-> u_disp,
     v_disp |-> v_disp, w_disp |-> w_disp, zerolon |-> zerolon,
     zerolat |-> zerolat, model_disp_points |-> model_points,
     strains |-> strains, source_object |-> source_object,
     receiver_object |-> receiver_object, receiver_normal |-> receiver_normal,
     receiver_shear |-> receiver_shear, receiver_coulomb |-> receiver_coulomb]

\* ------------------------------------------------------------------------
\* Inputs
\* ------------------------------------------------------------------------
\* Receiver patches: a vertical strike-90 fault, an oblique dipping fault,
\* a south-striking dipping fault, a zero-width and a zero-length patch.
ReceiverPatches ==
    { Faults_object(0, 1000, 0, 0, 100, 0, 0, 0, <<>>, 90, 90, 0, 0, 180,
                    0, 1000, "vertical"),
      Faults_object(0, 1200, 0, 1200, 100, 0, 0, 0, <<>>, 45, 45, 0, 0, 90,
                    500, 1700, "oblique"),
      Faults_object(200, 200, 0, -1000, 200, 0, 0, 0, <<>>, 180, 45, 0, 0, 0,
                    0, 1000, "south"),
      Faults_object(0, 1000, 0, 0, 100, 0, 0, 0, <<>>, 90, 90, 0, 0, 45,
                    500, 500, "zero-width"),
      Faults_object(300, 300, 300, 300, 100, 0, 0, 0, <<>>, 0, 45, 0, 0, 135,
                    0, 1000, "zero-length") }

\* Source patches: a finite dipping fault with oblique slip and opening, a
\* point source (potency set, no slip), and a malformed patch with both a
\* potency and finite slip.
FiniteSource ==
    Faults_object(0, 0, 500, -500, 100, 2, 3, 1, <<>>, 180, 45, 0, 0, 124,
                  100, 700, "finite")
PointSource ==
    Faults_object(100, 100, 200, 200, 100, 0, 0, 0, <<5, 0, 0, 0>>, 0, 90,
                  0, 0, 0, 300, 300, "point")
BothSource ==
    Faults_object(0, 1000, 0, 0, 100, 2, 0, 0, <<5, 0, 0, 0>>, 90, 90, 0, 0,
                  180, 100, 1100, "both")

SourcePatches == {FiniteSource, PointSource, BothSource}

SeqsUpTo(S, n) == UNION {[1..m -> S] : m \in 0..n}

\* lists of up to n patches, no patch listed twice
ListsUpTo(S, n) ==
    {l \in SeqsUpTo(S, n) : \A i, j \in 1..Len(l) : l[i] = l[j] => i = j}

\* the grids of a run: x and y each start, finish, increment
GridChoices ==
    { [start_gridx |-> 0, finish_gridx |-> 500, xinc |-> 1000,
       start_gridy |-> 0, finish_gridy |-> 1000, yinc |-> 1000],
      [start_gridx |-> -500, finish_gridx |-> 500, xinc |-> 1000,
       start_gridy |-> 200, finish_gridy |-> 1700, yinc |-> 1000] }

Input_object(source_object, receiver_object, g) ==
    [PR1 |-> 25, FRIC |-> 4, depth |-> 0,
     start_gridx |-> g.start_gridx, finish_gridx |-> g.finish_gridx,
     start_gridy |-> g.start_gridy, finish_gridy |-> g.finish_gridy,
     xinc |-> g.xinc, yinc |-> g.yinc,
     minlon |-> -1, maxlon |-> 1, zerolon |-> 0,
     minlat |-> -1, maxlat |-> 1, zerolat |-> 0,
     source_object |-> source_object, receiver_object |-> receiver_object]

Params(strike_num_receivers, dip_num_receivers) ==
    [strike_num_receivers |-> strike_num_receivers,
     dip_num_receivers |-> dip_num_receivers,
     mu |-> <<3, 10>>, lame1 |-> <<3, 10>>, B |-> Dec(0),
     alpha |-> <<667, -3>>]

DispPointLists ==
    { <<>>,
      <<Displacement_points(2, 3, <<5, -3>>, <<-1, -3>>, <<2, -3>>,
                            <<1, -3>>, <<1, -3>>, <<2, -3>>, "P1")>> }

StrainPointChoices == {None, [lon |-> <<4>>, lat |-> <<-1>>]}

\* the receiver lists and split counts of a whole run
RunReceiverLists ==
    { <<>>,
      <<Faults_object(0, 1000, 0, 0, 100, 0, 0, 0, <<>>, 90, 90, 0, 0, 180,
                      0, 1000, "vertical")>> }

RunSplitCounts == {1, 2}

\* ------------------------------------------------------------------------
\* do_stress_computation
\* ------------------------------------------------------------------------
\* the state before the first statement, whatever the inputs
StartAt(statement, points) ==
    /\ pc = statement
    /\ obs = points
    /\ error = "none"
    /\ subfaulted_inputs = None
    /\ pt = 1
    /\ src = 1
    /\ acc = AccStart
    /\ grid = None
    /\ model_disp_points = <<>>
    /\ strain_tensor_results = <<>>
    /\ receiver_stresses = None
    /\ out = None
    /\ last_eval = None
    /\ n_evals = 0
    /\ n_resolver_calls = 0
    /\ solver_failed = FALSE
    /\ returned = None

Start == StartAt("split", <<>>)

Init ==
    /\ params \in {Params(s, d) : s \in RunSplitCounts, d \in RunSplitCounts}
    /\ inputs \in {Input_object(s, r, g) :
                      s \in ListsUpTo(SourcePatches, MaxSources),
                      r \in RunReceiverLists, g \in GridChoices}
    /\ disp_points \in DispPointLists
    /\ strain_points \in StrainPointChoices
    /\ args = None
    /\ Start

run_inputs == <<params, inputs, disp_points, strain_points>>
call_vars == <<args, returned>>
loop_vars == <<obs, pt, src, acc>>
eval_vars == <<last_eval, n_evals, solver_failed>>
\* no surface mode calls the Coulomb resolver
surface_vars == <<error, n_resolver_calls>>
results == <<grid, model_disp_points, strain_tensor_results,
             receiver_stresses, out>>

\* Step 0: subfaulted_inputs = split_subfault_receivers(params, inputs)
SplitSubfaultReceivers ==
    /\ pc = "split"
    /\ error = "none"
    /\ IF split_raises(params, inputs)
       THEN /\ error' = "IndexError"
            /\ UNCHANGED <<pc, subfaulted_inputs>>
       ELSE /\ subfaulted_inputs' = split_subfault_receivers(params, inputs)
            /\ pc' = "grid"
            /\ UNCHANGED error
    /\ UNCHANGED <<run_inputs, call_vars, loop_vars, eval_vars, results,
                   n_resolver_calls>>

\* compute_grid_def up to its loops: the grid and the zero arrays
GridBegin ==
    /\ pc = "grid"
    /\ error = "none"
    /\ LET x == grid_x(subfaulted_inputs)
           y == grid_y(subfaulted_inputs)
       IN  /\ grid' = [x |-> x, y |-> y,
                       x2d |-> [ky \in 1..Len(y) |-> x],
                       y2d |-> [ky \in 1..Len(y) |->
                                   [kx \in 1..Len(x) |-> y[ky]]],
                       u_displacements |-> zeros_2d(y, x),
                       v_displacements |-> zeros_2d(y, x),
                       w_displacements |-> zeros_2d(y, x)]
           /\ obs' = grid_nodes(x, y)
    /\ pt' = 1
    /\ src' = 1
    /\ acc' = AccStart
    /\ pc' = "grid_loop"
    /\ UNCHANGED <<run_inputs, call_vars, surface_vars, subfaulted_inputs, eval_vars,
                   model_disp_points, strain_tensor_results,
                   receiver_stresses, out>>

\* compute_ll_def up to its loop: the points in local coordinates
LLDefBegin ==
    /\ pc = "ll_def"
    /\ error = "none"
    /\ obs' = [i \in 1..Len(disp_points) |->
                  latlon2xy(disp_points[i].lon, disp_points[i].lat,
                            subfaulted_inputs.zerolon,
                            subfaulted_inputs.zerolat)]
    /\ model_disp_points' = <<>>
    /\ pt' = 1
    /\ src' = 1
    /\ acc' = AccStart
    /\ pc' = "ll_def_loop"
    /\ UNCHANGED <<run_inputs, call_vars, surface_vars, subfaulted_inputs, eval_vars,
                   grid, strain_tensor_results, receiver_stresses, out>>

\* variant of compute_ll_strain without the early return
LLStrainBegin_no_early_return ==
    /\ pc = "ll_strain"
    /\ error = "none"
    /\ IF strain_points = None
       THEN /\ error' = "AttributeError"
            /\ UNCHANGED <<pc, loop_vars, strain_tensor_results>>
       ELSE /\ obs' = [i \in 1..Len(strain_points.lon) |->
                          latlon2xy(strain_points.lon[i], strain_points.lat[i],
                                    subfaulted_inputs.zerolon,
                                    subfaulted_inputs.zerolat)]
            /\ strain_tensor_results' = <<>>
            /\ pt' = 1
            /\ src' = 1
            /\ acc' = AccStart
            /\ pc' = "ll_strain_loop"
            /\ UNCHANGED error
    /\ UNCHANGED <<run_inputs, call_vars, n_resolver_calls, subfaulted_inputs, eval_vars,
                   grid, model_disp_points, receiver_stresses, out>>

\* compute_ll_strain up to its second loop, or its early return of [None]
LLStrainBegin ==
    /\ pc = "ll_strain"
    /\ error = "none"
    /\ IF strain_points = None
       THEN /\ strain_tensor_results' = None
            /\ pc' = "coulomb"
            /\ UNCHANGED loop_vars
       ELSE /\ obs' = [i \in 1..Len(strain_points.lon) |->
                          latlon2xy(strain_points.lon[i], strain_points.lat[i],
                                    subfaulted_inputs.zerolon,
                                    subfaulted_inputs.zerolat)]
            /\ strain_tensor_results' = <<>>
            /\ pt' = 1
            /\ src' = 1
            /\ acc' = AccStart
            /\ pc' = "ll_strain_loop"
    /\ UNCHANGED <<run_inputs, call_vars, surface_vars, subfaulted_inputs, eval_vars,
                   grid, model_disp_points, receiver_stresses, out>>

InSurfaceLoop == pc \in {"grid_loop", "ll_def_loop", "ll_strain_loop"}

\* compute_surface_disp_point, one pass of its loop over the sources: the
\* source evaluator at the surface (computation_depth = 0), the solver
\* returning any of its outcomes, and the sums updated
EvalSource ==
    /\ InSurfaceLoop
    /\ error = "none"
    /\ pt <= Len(obs)
    /\ src <= Len(subfaulted_inputs.source_object)
    /\ \E solved \in SolverOutcomes :
          LET fault == subfaulted_inputs.source_object[src]
              r == compute_strains_stresses_from_one_fault(
                       fault, obs[pt][1], obs[pt][2], 0, params, solved)
          IN  /\ acc' = AccAdd(acc, r)
              /\ last_eval' = [source |-> fault, x |-> obs[pt][1],
                               y |-> obs[pt][2], z |-> 0, solved |-> solved,
                               returned |-> r]
              /\ solver_failed' = (solver_failed \/ solved.success # 0)
    /\ n_evals' = n_evals + 1
    /\ src' = src + 1
    /\ UNCHANGED <<run_inputs, call_vars, pc, surface_vars, subfaulted_inputs, obs,
                   pt, results>>

\* the value at row ky, column kx of a 2-d array replaced
Assign2d(a, n, v) ==
    LET numcols == Len(grid.x)
        ky == ((n - 1) \div numcols) + 1
        kx == ((n - 1) % numcols) + 1
    IN  [a EXCEPT ![ky][kx] = v]

\* compute_surface_disp_point returns; its caller stores the point's result
PointDone ==
    /\ InSurfaceLoop
    /\ error = "none"
    /\ pt <= Len(obs)
    /\ src > Len(subfaulted_inputs.source_object)
    /\ CASE pc = "grid_loop" ->
              /\ grid' = [grid EXCEPT
                    !.u_displacements = Assign2d(@, pt, acc.u_disp),
                    !.v_displacements = Assign2d(@, pt, acc.v_disp),
                    !.w_displacements = Assign2d(@, pt, acc.w_disp)]
              /\ UNCHANGED <<model_disp_points, strain_tensor_results, error>>
         [] pc = "ll_def_loop" ->
              \* u_disp[0]: with no source u_disp is the int 0
              IF acc.is_array
              THEN /\ model_disp_points' = Append(model_disp_points,
                         Displacement_points(disp_points[pt].lon,
                             disp_points[pt].lat, acc.u_disp, acc.v_disp,
                             acc.w_disp, <<>>, <<>>, <<>>, <<>>))
                   /\ UNCHANGED <<grid, strain_tensor_results, error>>
              ELSE /\ error' = "TypeError"
                   /\ UNCHANGED <<grid, model_disp_points,
                                  strain_tensor_results>>
         [] pc = "ll_strain_loop" ->
              /\ strain_tensor_results' =
                     Append(strain_tensor_results, acc.strain_tensor_total)
              /\ UNCHANGED <<grid, model_disp_points, error>>
    /\ pt' = pt + 1
    /\ src' = 1
    /\ acc' = AccStart
    /\ UNCHANGED <<run_inputs, call_vars, pc, subfaulted_inputs, obs, eval_vars,
                   n_resolver_calls, receiver_stresses, out>>

\* the loop over the points is over: the mode returns to do_stress_computation
ModeReturn ==
    /\ InSurfaceLoop
    /\ error = "none"
    /\ pt > Len(obs)
    /\ pc' = CASE pc = "grid_loop" -> "ll_def"
               [] pc = "ll_def_loop" -> "ll_strain"
               [] pc = "ll_strain_loop" -> "coulomb"
    /\ UNCHANGED <<run_inputs, call_vars, surface_vars, subfaulted_inputs, loop_vars,
                   eval_vars, results>>

\* Step 2: compute_strains_stresses(params, subfaulted_inputs)
ComputeStrainsStresses ==
    /\ pc = "coulomb"
    /\ error = "none"
    /\ LET r == compute_strains_stresses(params, subfaulted_inputs)
       IN  IF r.raised = "none"
           THEN /\ receiver_stresses' = r
                /\ pc' = "out"
                /\ UNCHANGED error
           ELSE /\ error' = r.raised
                /\ UNCHANGED <<pc, receiver_stresses>>
    /\ n_resolver_calls' = n_resolver_calls
           + resolver_calls_made(params, subfaulted_inputs)
    /\ UNCHANGED <<run_inputs, call_vars, subfaulted_inputs, loop_vars, eval_vars, grid,
                   model_disp_points, strain_tensor_results, out>>

\* MyOutObject = cc.Out_object(...); return MyOutObject
ReturnOutObject ==
    /\ pc = "out"
    /\ error = "none"
    /\ out' = Out_object(grid.x, grid.y, grid.x2d, grid.y2d,
                         grid.u_displacements, grid.v_displacements,
                         grid.w_displacements, strain_tensor_results,
                         model_disp_points, inputs.zerolon, inputs.zerolat,
                         inputs.source_object,
                         subfaulted_inputs.receiver_object,
                         receiver_stresses.receiver_normal,
                         receiver_stresses.receiver_shear,
                         receiver_stresses.receiver_coulomb)
    /\ pc' = "done"
    /\ UNCHANGED <<run_inputs, call_vars, surface_vars, subfaulted_inputs, loop_vars,
                   eval_vars, grid, model_disp_points, strain_tensor_results,
                   receiver_stresses>>

Next ==
    \/ SplitSubfaultReceivers
    \/ GridBegin
    \/ LLDefBegin
    \/ LLStrainBegin
    \/ EvalSource
    \/ PointDone
    \/ ModeReturn
    \/ ComputeStrainsStresses
    \/ ReturnOutObject

Spec == Init /\ [][Next]_vars

\* ------------------------------------------------------------------------
\* The splitter alone: split_subfault_receivers applied to drawn inputs
\* ------------------------------------------------------------------------
InitSplit ==
    /\ params \in {Params(s, d) : s \in 1..MaxSplit, d \in 1..MaxSplit}
    /\ inputs \in {Input_object(<<>>, r, g) :
                      r \in SeqsUpTo(ReceiverPatches, MaxReceivers),
                      g \in GridChoices}
    /\ disp_points = <<>>
    /\ strain_points = None
    /\ args = None
    /\ Start

SpecSplit == InitSplit /\ [][SplitSubfaultReceivers]_vars

\* ------------------------------------------------------------------------
\* Grid mode: a run up to the return of compute_grid_def, on grids of no
\* node, of two nodes in a row and of two nodes in a column
\* ------------------------------------------------------------------------
GridModeChoices ==
    { [start_gridx |-> 0, finish_gridx |-> 500, xinc |-> 1000,
       start_gridy |-> 0, finish_gridy |-> 1000, yinc |-> 1000],
      [start_gridx |-> -500, finish_gridx |-> 2000, xinc |-> 1000,
       start_gridy |-> 200, finish_gridy |-> 1700, yinc |-> 1000],
      [start_gridx |-> 100, finish_gridx |-> 1100, xinc |-> 1000,
       start_gridy |-> -1000, finish_gridy |-> 1000, yinc |-> 1000] }

InitGrid ==
    /\ params = Params(1, 1)
    /\ inputs \in {Input_object(s, <<>>, g) :
                      s \in ListsUpTo(SourcePatches, MaxSources),
                      g \in GridModeChoices}
    /\ disp_points = <<>>
    /\ strain_points = None
    /\ args = None
    /\ Start

NextGrid ==
    \/ SplitSubfaultReceivers
    \/ GridBegin
    \/ EvalSource
    \/ PointDone
    \/ ModeReturn

SpecGrid == InitGrid /\ [][NextGrid]_vars

\* ------------------------------------------------------------------------
\* The source evaluator alone: compute_strains_stresses_from_one_fault
\* applied to a drawn source and observation point (x, y, z)
\* ------------------------------------------------------------------------
InitEval ==
    /\ params = Params(1, 1)
    /\ inputs \in {Input_object(<<s>>, <<>>, g) :
                      s \in SourcePatches, g \in GridChoices}
    /\ disp_points = <<>>
    /\ strain_points = None
    /\ args = None
    /\ \E x \in {-300, 0, 700}, y \in {-200, 400}, z \in {0, 500} :
          StartAt("evaluate", <<<<x, y, z>>>>)

EvaluateOneFault ==
    /\ pc = "evaluate"
    /\ error = "none"
    /\ \E solved \in SolverOutcomes :
          LET fault == inputs.source_object[1]
              r == compute_strains_stresses_from_one_fault(
                       fault, obs[1][1], obs[1][2], obs[1][3], params, solved)
          IN  /\ last_eval' = [source |-> fault, x |-> obs[1][1],
                               y |-> obs[1][2], z |-> obs[1][3],
                               solved |-> solved, returned |-> r]
              /\ solver_failed' = (solver_failed \/ solved.success # 0)
    /\ n_evals' = n_evals + 1
    /\ pc' = "evaluated"
    /\ UNCHANGED <<run_inputs, call_vars, surface_vars, subfaulted_inputs, loop_vars,
                   results>>

SpecEval == InitEval /\ [][EvaluateOneFault]_vars

\* ------------------------------------------------------------------------
\* A function applied on its own: no run of do_stress_computation is in
\* progress, the function named by pc is applied to args and either returns
\* a value or raises
\* ------------------------------------------------------------------------
NoRun(function) ==
    /\ params = None
    /\ inputs = None
    /\ disp_points = <<>>
    /\ strain_points = None
    /\ StartAt(function, <<>>)

\* r is [raised |-> the exception or "none", value |-> the value returned]
Ends(function, r) ==
    /\ pc = function
    /\ error = "none"
    /\ pc' = "ended"
    /\ error' = r.raised
    /\ returned' = r.value
    /\ UNCHANGED <<run_inputs, args, subfaulted_inputs, loop_vars,
                   eval_vars, n_resolver_calls, results>>

\* ------------------------------------------------------------------------
\* Tectonic_Utils.geodesy.fault_vector_functions (slip and rake)
\* ------------------------------------------------------------------------
\* numpy.arctan2(y, x) in degrees, rounded to the angle lattice
arctan2_deg(y, x) ==
    LET q == IF 1000 * Abs(y) < 414 * Abs(x) THEN 0
             ELSE IF 1000 * Abs(y) > 2414 * Abs(x) THEN 90
             ELSE 45
    IN  IF x = 0 /\ y = 0 THEN 0
        ELSE IF x >= 0 /\ y >= 0 THEN q
        ELSE IF x < 0 /\ y >= 0 THEN 180 - q
        ELSE IF x < 0 THEN q - 180
        ELSE -q

get_rtlat_dip_slip(slip, rake) ==
    <<-MulTrig(slip, CosMilli(rake)), MulTrig(slip, SinMilli(rake))>>

get_total_slip(strike_slip, dip_slip) ==
    RoundSqrt(strike_slip * strike_slip + dip_slip * dip_slip)

get_rake(rtlat_strike_slip, dip_slip) ==
    arctan2_deg(dip_slip, -rtlat_strike_slip)

\* ------------------------------------------------------------------------
\* fault_slip_object: add_two_fault_dict_lists
\* ------------------------------------------------------------------------
FaultDict(strike, dip, length, width, lon, lat, depth, rake, slip, tensile, segment) ==
    [strike |-> strike, dip |-> dip, length |-> length, width |-> width,
     lon |-> lon, lat |-> lat, depth |-> depth, rake |-> rake,
     slip |-> slip, tensile |-> tensile, segment |-> segment]

\* the body of the loop over zip(list1, list2)
new_item(item1, item2) ==
    LET s1 == get_rtlat_dip_slip(item1.slip, item1.rake)
        s2 == get_rtlat_dip_slip(item2.slip, item2.rake)
        ss_total == s1[1] + s2[1]
        ds_total == s1[2] + s2[2]
        slip_total == get_total_slip(ss_total, ds_total)
        rake_total == get_rake(ss_total, ds_total)
    IN  FaultDict(item1.strike, item1.dip, item1.length, item1.width,
                  item1.lon, item1.lat, item1.depth, rake_total, slip_total,
                  item1.tensile + item2.tensile, item1.segment)

\* variant without the test of the lengths: zip stops at the shorter list
add_two_fault_dict_lists_zipped(list1, list2) ==
    LET n == IF Len(list1) < Len(list2) THEN Len(list1) ELSE Len(list2)
    IN  [raised |-> "none",
         value |-> [i \in 1..n |-> new_item(list1[i], list2[i])]]

add_two_fault_dict_lists(list1, list2) ==
    IF Len(list1) # Len(list2)
    THEN [raised |-> "Exception", value |-> None]
    ELSE [raised |-> "none",
          value |-> [i \in 1..Len(list1) |-> new_item(list1[i], list2[i])]]

\* fault_dicts: slip in mm, a right-lateral and a reverse patch of different
\* geometry, and a left-lateral patch with the geometry of the first
FaultDicts ==
    { FaultDict(90, 90, 10, 5, 1, 2, 0, 180, 1000, 0, 0),
      FaultDict(0, 45, 20, 8, 3, 4, 2, 90, 1000, 100, 1),
      FaultDict(90, 90, 10, 5, 1, 2, 0, 0, 1000, 50, 0) }

InitAdd ==
    /\ args \in {[list1 |-> a, list2 |-> b] :
                    a \in SeqsUpTo(FaultDicts, MaxFaultDicts),
                    b \in SeqsUpTo(FaultDicts, MaxFaultDicts)}
    /\ NoRun("add_two_fault_dict_lists")

AddTwoFaultDictLists ==
    Ends("add_two_fault_dict_lists",
         add_two_fault_dict_lists(args.list1, args.list2))

SpecAdd == InitAdd /\ [][AddTwoFaultDictLists]_vars

\* ------------------------------------------------------------------------
\* conversion_math.get_strain_tensor applied on its own
\* ------------------------------------------------------------------------
\* displacement gradients: every 3x3 array over two values
GradientEntries == {<<-3, -6>>, <<25, -7>>}

Gradients == [1..3 -> [1..3 -> GradientEntries]]

InitStrain ==
    /\ args \in {[dUidUj |-> G] : G \in Gradients}
    /\ NoRun("get_strain_tensor")

\* the function writes into a new array of zeros and leaves dUidUj alone
GetStrainTensor ==
    Ends("get_strain_tensor",
         [raised |-> "none", value |-> get_strain_tensor(args.dUidUj)])

SpecStrain == InitStrain /\ [][GetStrainTensor]_vars

\* ------------------------------------------------------------------------
\* conversion_math.get_stress_tensor applied on its own
\* ------------------------------------------------------------------------
\* strain tensors: every 3x3 array over two values, symmetric or not
StrainEntries == {<<2, -6>>, <<-5, -7>>}

Strains == [1..3 -> [1..3 -> StrainEntries]]

\* Lame parameters (lamda, mu) in Pa
LameChoices == {<<<<3, 10>>, <<3, 10>>>>, <<<<4, 10>>, <<25, 9>>>>}

InitStress ==
    /\ args \in {[eij |-> eij, lamda |-> l[1], mu |-> l[2]] :
                    eij \in Strains, l \in LameChoices}
    /\ NoRun("get_stress_tensor")

GetStressTensor ==
    Ends("get_stress_tensor",
         [raised |-> "none",
          value |-> get_stress_tensor(args.eij, args.lamda, args.mu)])

SpecStress == InitStress /\ [][GetStressTensor]_vars

\* ------------------------------------------------------------------------
\* conversion_math.get_coulomb_stresses_internal applied on its own
\* ------------------------------------------------------------------------
\* Receiver orientations (strike vector, dip vector, plane normal = strike x
\* dip), components in thousandths: strike 0 dip 90, strike 90 dip 90, and
\* strike 90 dip 45.
ReceiverOrientations ==
    { [strike |-> <<0, 1000, 0>>, dip |-> <<0, 0, -1000>>,
       normal |-> <<-1000, 0, 0>>],
      [strike |-> <<1000, 0, 0>>, dip |-> <<0, 0, -1000>>,
       normal |-> <<0, 1000, 0>>],
      [strike |-> <<1000, 0, 0>>, dip |-> <<0, -707, -707>>,
       normal |-> <<0, 707, -707>>] }

VecTrig(v) == [i \in 1..3 |-> DecTrig(v[i])]

\* a 3x3 array of whole numbers times 1000 (Pa)
KiloMat(A) == [i \in 1..3 |-> [j \in 1..3 |-> DecNorm(A[i][j], 3)]]

\* Stress tensors (Pa): two general ones, hydrostatic compression, and a
\* uniaxial compression along each of the three plane normals above.
StressTensors ==
    { KiloMat(<<<<3, 1, 0>>, <<1, -2, 4>>, <<0, 4, 5>>>>),
      KiloMat(<<<<0, 2, -1>>, <<2, 6, 0>>, <<-1, 0, -3>>>>),
      KiloMat(<<<<-6, 0, 0>>, <<0, -6, 0>>, <<0, 0, -6>>>>),
      KiloMat(<<<<-6, 0, 0>>, <<0, 0, 0>>, <<0, 0, 0>>>>),
      KiloMat(<<<<0, 0, 0>>, <<0, -6, 0>>, <<0, 0, 0>>>>),
      KiloMat(<<<<0, 0, 0>>, <<0, -3, 3>>, <<0, 3, -3>>>>) }

\* rakes; the oblique rake goes with the axis-aligned orientations only
RakeChoices(o) ==
    IF \A i \in 1..3 : o.normal[i] \in {0, 1000, -1000}
    THEN {0, 90, 180, -90, 45}
    ELSE {0, 90, 180, -90}

\* the receivers: an orientation and a rake
ReceiverChoices ==
    UNION {{[o |-> o, rake |-> rake] : rake \in RakeChoices(o)} :
              o \in ReceiverOrientations}

FrictionChoices == {<<4, -1>>, Dec(0)}

SkemptonChoices == {Dec(0), <<5, -1>>, Dec(1)}

InitCoulomb ==
    /\ args \in {[tau |-> tau, rec_strike_vector |-> VecTrig(r.o.strike),
                  rake |-> r.rake, rec_dip_vector |-> VecTrig(r.o.dip),
                  rec_plane_normal |-> VecTrig(r.o.normal),
                  friction |-> friction, B |-> B] :
                    tau \in StressTensors, r \in ReceiverChoices,
                    friction \in FrictionChoices, B \in SkemptonChoices}
    /\ NoRun("get_coulomb_stresses_internal")

GetCoulombStressesInternal ==
    Ends("get_coulomb_stresses_internal",
         [raised |-> "none",
          value |-> get_coulomb_stresses_internal(
                        args.tau, args.rec_strike_vector, args.rake,
                        args.rec_dip_vector, args.rec_plane_normal,
                        args.friction, args.B)])

SpecCoulomb == InitCoulomb /\ [][GetCoulombStressesInternal]_vars

\* ------------------------------------------------------------------------
\* The test harness: test_strike and test_rake call conversion_math
\* ------------------------------------------------------------------------
\* the names the module conversion_math binds: its imports and its functions
conversion_math ==
    {"np", "moment_calculations", "fault_vector_functions",
     "get_poissons_ratio_and_alpha", "get_strain_tensor", "get_stress_tensor",
     "get_coulomb_stresses", "get_coulomb_stresses_internal",
     "get_fault_center", "get_fault_four_corners", "get_fault_slip_moment",
     "get_R_from_strike", "rotate_points", "rotate_list_of_points",
     "get_geom_attributes_from_receiver_profile"}

\* the clockwise-from-north azimuth of the vector (dx, dy), in [0, 360)
Azimuth(dx, dy) == (90 - arctan2_deg(dy, dx)) % 360

\* the calls of the harness (components in thousandths: cos(-160 deg) is
\* -940, sin(-160 deg) is -342), and calls on vectors along the axes and the
\* diagonals with the azimuth as the answer
StrikeCalls ==
    {<<1000, 0, 90>>, <<-1000, 0, 270>>, <<0, -1000, 180>>, <<-940, -342, 250>>}
    \cup {<<d[1], d[2], Azimuth(d[1], d[2])>> :
             d \in {v \in (-MaxDelta..MaxDelta) \X (-MaxDelta..MaxDelta) :
                      /\ v # <<0, 0>>
                      /\ v[1] = 0 \/ v[2] = 0 \/ Abs(v[1]) = Abs(v[2])}}

RakeCalls ==
    {<<k * c[1], k * c[2], c[3]>> :
        k \in 1..MaxDelta,
        c \in {<<1, 0, 0>>, <<0, 1, 90>>, <<0, -1, -90>>, <<-1, 0, 180>>}}

InitHarness ==
    \/ /\ args \in {[deltax |-> c[1], deltay |-> c[2], answer |-> c[3]] :
                       c \in StrikeCalls}
       /\ NoRun("test_strike")
    \/ /\ args \in {[ss |-> c[1], ds |-> c[2], answer |-> c[3]] :
                       c \in RakeCalls}
       /\ NoRun("test_rake")

\* the value, or the AttributeError, of the call module.name(...): what a
\* function that the module does not define would return is left open
module_call(module, name, values) ==
    IF name \in module
      THEN {[raised |-> "none", value |-> v] : v \in values}
      ELSE {[raised |-> "AttributeError", value |-> None]}

\* strike = conversion_math.get_strike(deltax, deltay)
TestStrike ==
    \E r \in module_call(conversion_math, "get_strike", 0..359) :
        Ends("test_strike", r)

\* rake = conversion_math.get_rake(ss, ds)
TestRake ==
    \E r \in module_call(conversion_math, "get_rake", -180..180) :
        Ends("test_rake", r)

NextHarness == TestStrike \/ TestRake

SpecHarness == InitHarness /\ [][NextHarness]_vars

\* ------------------------------------------------------------------------
\* Claims about the subfault splitter (checked under SpecSplit)
\* ------------------------------------------------------------------------
IdentitySplit == params.strike_num_receivers = 1 /\ params.dip_num_receivers = 1

SplitReturned == subfaulted_inputs # None

PerReceiver == params.dip_num_receivers * params.strike_num_receivers

\* the parent (index into the input receiver list) of output patch n
ParentOf(n) == ((n - 1) \div PerReceiver) + 1

\* the dip row and strike segment (0-based) of output patch n
RowOf(n) == ((n - 1) % PerReceiver) \div params.strike_num_receivers
SegOf(n) == ((n - 1) % PerReceiver) % params.strike_num_receivers

\* C6: with split counts (1, 1) the returned bundle's receiver list is the
\* input receiver list, unchanged (same patches, same order, same values),
\* also when that list is empty.
C6_IdentitySplitUnchanged ==
    (SplitReturned /\ IdentitySplit) =>
        /\ error = "none"
        /\ subfaulted_inputs.receiver_object = inputs.receiver_object

C6_Witness ==
    /\ SplitReturned
    /\ IdentitySplit
    /\ Len(inputs.receiver_object) = 2
    /\ inputs.receiver_object[1] # inputs.receiver_object[2]

\* C7: with split counts not both 1 the splitter raises nothing and returns
\* dipSplit x strikeSplit sub-patches per input receiver, each with the
\* strike, dip angle, rake, Kode and comment of its parent, zero rtlat,
\* reverse and tensile slip and no potency.
C7_SubpatchCountAndInheritance ==
    /\ error = "none"
    /\ (SplitReturned /\ ~IdentitySplit) =>
          LET subs == subfaulted_inputs.receiver_object
              recs == inputs.receiver_object
          IN  /\ Len(subs) = Len(recs) * PerReceiver
              /\ \A n \in 1..Len(subs) :
                    /\ subs[n].strike = recs[ParentOf(n)].strike
                    /\ subs[n].dipangle = recs[ParentOf(n)].dipangle
                    /\ subs[n].rake = recs[ParentOf(n)].rake
                    /\ subs[n].Kode = recs[ParentOf(n)].Kode
                    /\ subs[n].comment = recs[ParentOf(n)].comment
                    /\ subs[n].rtlat = 0
                    /\ subs[n].reverse = 0
                    /\ subs[n].tensile = 0
                    /\ subs[n].potency = <<>>

C7_Witness ==
    /\ SplitReturned
    /\ params.strike_num_receivers = 2
    /\ params.dip_num_receivers = 3
    /\ Len(inputs.receiver_object) = 2
    /\ Len(subfaulted_inputs.receiver_object) = 12

\* The map-view point a receiver's corner is displaced to at depth z.
DisplacedCorner(fault, x, y, z) ==
    add_vector_to_point(x, y,
        MulTrig(get_downdip_width(fault.top, z, fault.dipangle),
                CosMilli(fault.dipangle)),
        fault.strike + 90)

\* Shared edges: inside a dip row the finish of a segment is the start of
\* the next, and the bottom depth of a row is the top depth of the next.
SharedEdgesCoincide(subs, n) ==
    /\ (SegOf(n) + 1 < params.strike_num_receivers) =>
          /\ subs[n].xfinish = subs[n + 1].xstart
          /\ subs[n].yfinish = subs[n + 1].ystart
          /\ subs[n].top = subs[n + 1].top
    /\ (RowOf(n) + 1 < params.dip_num_receivers) =>
          subs[n].bottom = subs[n + params.strike_num_receivers].top

\* The first row starts at the parent's top and start corner.
FirstEdgesAreParents(subs, n, parent) ==
    /\ (RowOf(n) = 0) => subs[n].top = parent.top
    /\ (RowOf(n) = 0 /\ SegOf(n) = 0) =>
          /\ subs[n].xstart = parent.xstart
          /\ subs[n].ystart = parent.ystart

\* The last row ends at the parent's bottom and the last segment of a row
\* ends at the parent's finish corner, displaced downdip to the row's top.
LastEdgesAreParents(subs, n, parent) ==
    /\ (RowOf(n) + 1 = params.dip_num_receivers) =>
          subs[n].bottom = parent.bottom
    /\ (SegOf(n) + 1 = params.strike_num_receivers) =>
          <<subs[n].xfinish, subs[n].yfinish>> =
              DisplacedCorner(parent, parent.xfinish, parent.yfinish,
                              subs[n].top)

\* C8: the sub-patches of a receiver exactly tile the parent rectangle:
\* shared edges coincide, the first row's top and first segment's start
\* are the parent's top and start corner, and the last row's bottom and
\* last segment's finish are the parent's bottom and displaced finish corner.
C8_ExactTiling ==
    (SplitReturned /\ ~IdentitySplit) =>
        LET subs == subfaulted_inputs.receiver_object
            recs == inputs.receiver_object
        IN  \A n \in 1..Len(subs) :
               /\ SharedEdgesCoincide(subs, n)
               /\ FirstEdgesAreParents(subs, n, recs[ParentOf(n)])
               /\ LastEdgesAreParents(subs, n, recs[ParentOf(n)])

ZeroWidth(fault) == fault.top = fault.bottom
ZeroLength(fault) ==
    fault.xstart = fault.xfinish /\ fault.ystart = fault.yfinish

\* C9 as claimed: a zero-width or zero-length receiver given to the
\* splitter with split counts other than (1, 1) ends in an error; the
\* splitter returns no sub-patches.
C9_DegenerateReceiverIsFatal ==
    (/\ ~IdentitySplit
     /\ \E i \in 1..Len(inputs.receiver_object) :
           ZeroWidth(inputs.receiver_object[i])
               \/ ZeroLength(inputs.receiver_object[i]))
        => ~SplitReturned

\* C9 as amended: for a zero-width or zero-length receiver and split counts
\* other than (1, 1) the splitter raises nothing and returns dipSplit x
\* strikeSplit sub-patches per receiver; every sub-patch of a zero-width
\* receiver has top = bottom = the parent's top, every sub-patch of a
\* zero-length receiver has its start point equal to its finish point.
C9_DegenerateReceiverIsSplit ==
    /\ error = "none"
    /\ (SplitReturned /\ ~IdentitySplit) =>
          LET subs == subfaulted_inputs.receiver_object
              recs == inputs.receiver_object
          IN  /\ Len(subs) = Len(recs) * PerReceiver
              /\ \A n \in 1..Len(subs) :
                    /\ ZeroWidth(recs[ParentOf(n)]) =>
                          /\ subs[n].top = recs[ParentOf(n)].top
                          /\ subs[n].bottom = recs[ParentOf(n)].top
                    /\ ZeroLength(recs[ParentOf(n)]) =>
                          /\ subs[n].xstart = subs[n].xfinish
                          /\ subs[n].ystart = subs[n].yfinish

C9_Witness ==
    /\ SplitReturned
    /\ ~IdentitySplit
    /\ Len(inputs.receiver_object) = 2
    /\ ZeroWidth(inputs.receiver_object[1])
    /\ ZeroLength(inputs.receiver_object[2])
    /\ Len(subfaulted_inputs.receiver_object) = 2 * PerReceiver

\* ------------------------------------------------------------------------
\* Claims about a whole run of do_stress_computation (checked under Spec)
\* ------------------------------------------------------------------------
\* compute_strains_stresses has returned or raised
CoulombEnded ==
    \/ pc \in {"out", "done"}
    \/ pc = "coulomb" /\ error # "none"

\* C1: in receiver-Coulomb mode every post-split receiver is evaluated (at
\* its center) and the mode returns a normal, a shear and a Coulomb list,
\* each with exactly one entry per post-split receiver.
C1_OneEntryPerReceiver ==
    (CoulombEnded /\ subfaulted_inputs.receiver_object # <<>>) =>
        /\ error = "none"
        /\ receiver_stresses # None
        /\ Len(receiver_stresses.receiver_normal)
              = Len(subfaulted_inputs.receiver_object)
        /\ Len(receiver_stresses.receiver_shear)
              = Len(subfaulted_inputs.receiver_object)
        /\ Len(receiver_stresses.receiver_coulomb)
              = Len(subfaulted_inputs.receiver_object)

\* C2: when receiver-Coulomb mode has ended, the Coulomb resolver has been
\* invoked exactly once per post-split receiver (after the strain tensors of
\* all sources were summed), not once per source.
C2_ResolvedOncePerReceiver ==
    CoulombEnded =>
        n_resolver_calls = Len(subfaulted_inputs.receiver_object)

\* C3: once a solver call has reported failure (nonzero success code) the
\* computation has failed hard: an error is raised and no output object is
\* returned.
C3_SolverFailureAborts ==
    solver_failed => (error # "none" /\ out = None)

\* C10: with an empty receiver list, for any source list and split counts,
\* receiver-Coulomb mode raises nothing, returns three empty lists and does
\* not invoke the source evaluator.
C10_EmptyReceiversGiveEmptyLists ==
    [][(/\ pc = "coulomb"
        /\ error = "none"
        /\ inputs.receiver_object = <<>>
        /\ (pc' # pc \/ error' # error))
         => /\ error' = "none"
            /\ pc' = "out"
            /\ receiver_stresses'.receiver_normal = <<>>
            /\ receiver_stresses'.receiver_shear = <<>>
            /\ receiver_stresses'.receiver_coulomb = <<>>
            /\ n_evals' = n_evals]_vars

C10_Witness ==
    /\ pc = "out"
    /\ inputs.receiver_object = <<>>
    /\ Len(inputs.source_object) = 2
    /\ params.strike_num_receivers = 2
    /\ params.dip_num_receivers = 2
    /\ n_evals > 0
    /\ receiver_stresses.receiver_coulomb = <<>>

\* compute_ll_strain is entered with no strain points and returns or raises
StrainModeWithoutPoints ==
    /\ pc = "ll_strain"
    /\ error = "none"
    /\ strain_points = None
    /\ (pc' # pc \/ error' # error)

\* C11 as claimed: strain mode with no strain points raises nothing, does
\* not invoke the source evaluator and returns an empty collection of
\* strain tensors.
C11_NoStrainPointsGiveEmptyCollection ==
    [][StrainModeWithoutPoints
         => /\ error' = "none"
            /\ n_evals' = n_evals
            /\ strain_tensor_results' # None
            /\ strain_tensor_results' = <<>>]_vars

\* C11 as amended: strain mode with no strain points raises nothing, does
\* not invoke the source evaluator and returns None as its result (no
\* collection of strain tensors is built).
C11_NoStrainPointsGiveNone ==
    [][StrainModeWithoutPoints
         => /\ error' = "none"
            /\ n_evals' = n_evals
            /\ strain_tensor_results' = None
            /\ pc' = "coulomb"]_vars

C11_Witness ==
    /\ pc = "coulomb"
    /\ error = "none"
    /\ strain_points = None
    /\ strain_tensor_results = None
    /\ Len(inputs.source_object) = 2
    /\ n_evals > 0

\* compute_ll_def has returned
LLDefReturned ==
    pc \in {"ll_strain", "ll_strain_loop", "coulomb", "out", "done"}

\* C18: point mode raises nothing and returns one model point per input
\* displacement point, in input order, each with the input point's lon and
\* lat (and the summed displacement there); the input point's observed
\* uncertainty fields pass through untouched.
C18_OneModelPointPerInputPoint ==
    /\ (pc = "ll_def_loop") => error = "none"
    /\ LLDefReturned =>
          /\ Len(model_disp_points) = Len(disp_points)
          /\ \A i \in 1..Len(model_disp_points) :
                /\ model_disp_points[i].lon = disp_points[i].lon
                /\ model_disp_points[i].lat = disp_points[i].lat
                /\ model_disp_points[i].Se_obs = disp_points[i].Se_obs
                /\ model_disp_points[i].Sn_obs = disp_points[i].Sn_obs
                /\ model_disp_points[i].Su_obs = disp_points[i].Su_obs

\* C20: no step of a run changes params, inputs (its receiver list and the
\* patches in it included), disp_points or strain_points; the bundle that
\* split_subfault_receivers returns has the fields of inputs, each equal to
\* the input's except receiver_object; and the Out_object that
\* do_stress_computation returns has source_object equal to the input source
\* list and receiver_object equal to the (possibly subfaulted) receiver list,
\* as long as each of receiver_normal, receiver_shear and receiver_coulomb.
C20_InputsAreNotMutated ==
    [][/\ params' = params
       /\ inputs' = inputs
       /\ disp_points' = disp_points
       /\ strain_points' = strain_points
       /\ (subfaulted_inputs' # None) =>
             /\ DOMAIN subfaulted_inputs' = DOMAIN inputs
             /\ \A f \in DOMAIN inputs \ {"receiver_object"} :
                   subfaulted_inputs'[f] = inputs[f]
       /\ (pc' = "done") =>
             /\ out'.source_object = inputs.source_object
             /\ out'.receiver_object = subfaulted_receivers(params, inputs)
             /\ Len(out'.receiver_normal) = Len(out'.receiver_object)
             /\ Len(out'.receiver_shear) = Len(out'.receiver_object)
             /\ Len(out'.receiver_coulomb) = Len(out'.receiver_object)]_vars

C20_Witness ==
    /\ pc = "done"
    /\ error = "none"
    /\ params.strike_num_receivers = 2
    /\ Len(inputs.source_object) = 2
    /\ subfaulted_inputs.source_object = inputs.source_object
    /\ out.source_object = inputs.source_object
    /\ out.receiver_object = inputs.receiver_object
    /\ Len(out.receiver_coulomb) = Len(out.receiver_object)

\* the stress tensors one source may contribute at a receiver's center, one
\* for each outcome of the solver: the gradient of the evaluator turned into
\* a strain and then a stress tensor
source_stress_tensors(source, p) ==
    {get_stress_tensor(
         get_strain_tensor(
             compute_strains_stresses_from_one_fault(source, 0, 0, 0, p,
                 solved).desired_coords_grad_u),
         p.lame1, p.mu) : solved \in SolverOutcomes}

RECURSIVE MatSum(_)
MatSum(taus) ==
    IF taus = <<>> THEN ZeroMat
    ELSE MatAdd(MatSum(SubSeq(taus, 1, Len(taus) - 1)), taus[Len(taus)])

\* the stress tensors the sources of a run may contribute
StressTensorsOfRun(p, inp) ==
    UNION {source_stress_tensors(inp.source_object[k], p) :
              k \in 1..Len(inp.source_object)}

\* what the Coulomb resolver may return for a receiver when applied once to
\* the sum of the stress tensors of all the sources (the strike, dip and
\* normal vectors of the receiver are built outside this repository: any
\* axis-aligned orientation stands for them)
resolved_once_on_sum(receiver, p, inp) ==
    {get_coulomb_stresses_internal(MatSum(taus), VecTrig(o.strike),
         receiver.rake, VecTrig(o.dip), VecTrig(o.normal),
         <<inp.FRIC, -1>>, p.B) :
        taus \in {t \in [1..Len(inp.source_object) -> StressTensorsOfRun(p, inp)] :
                     \A k \in 1..Len(inp.source_object) :
                        t[k] \in source_stress_tensors(inp.source_object[k], p)},
        o \in {a \in ReceiverOrientations :
                  \A i \in 1..3 : a.normal[i] \in {0, 1000, -1000}}}

\* C21: for every receiver and every source list, the normal, shear and
\* Coulomb values that compute_strains_stresses returns for the receiver (the
\* sums of the resolver's outputs for each source) are the values the
\* resolver returns when applied once to the sum of all sources' stress
\* tensors; with no source all three values are 0.
C21_SummedOutputsEqualResolvedSum ==
    (CoulombEnded /\ subfaulted_inputs.receiver_object # <<>>) =>
        /\ error = "none"
        /\ receiver_stresses # None
        /\ \A i \in 1..Len(subfaulted_inputs.receiver_object) :
              LET summed == <<receiver_stresses.receiver_normal[i],
                              receiver_stresses.receiver_shear[i],
                              receiver_stresses.receiver_coulomb[i]>>
              IN  /\ subfaulted_inputs.source_object = <<>> =>
                        summed = <<Dec(0), Dec(0), Dec(0)>>
                  /\ summed \in resolved_once_on_sum(
                                   subfaulted_inputs.receiver_object[i],
                                   params, subfaulted_inputs)

\* ------------------------------------------------------------------------
\* Claims about the source evaluator (checked under SpecEval)
\* ------------------------------------------------------------------------
HasPotency(source) == source.potency # <<>>

HasSlip(source) ==
    source.rtlat # 0 \/ source.reverse # 0 \/ source.tensile # 0

\* C4: evaluating a source that has both a potency and a nonzero slip fails
\* fast: an error is raised and no solver is called.
C4_PotencyAndSlipFailsFast ==
    (/\ last_eval # None
     /\ HasPotency(last_eval.source)
     /\ HasSlip(last_eval.source))
        => /\ error # "none"
           /\ last_eval.returned.calls = <<>>

\* C5: every evaluation makes exactly one solver call.  A source with a
\* potency goes to the point-source solver, and the returned gradients and
\* displacements are the solver's times 1e-9 and 1e-6, rotated to map
\* coordinates.  Any other source goes to the finite-rectangle solver with
\* strike extent [0, L], dip extent [-W, 0], depth the source's top, the
\* observation z negated and dislocation (-rtlat, reverse, tensile); the
\* returned gradients are the solver's times 1e-3 and the displacements are
\* the solver's unscaled, rotated to map coordinates.
C5_OneSolverCallPerEvaluation ==
    last_eval # None =>
        LET source == last_eval.source
            calls == last_eval.returned.calls
            R == Rotation(source.strike - 90)
            solver_grad_u ==
                MatMul(R, MatMul(last_eval.returned.desired_coords_grad_u,
                                 Transpose(R)))
            solver_u == MatVec(R, last_eval.returned.desired_coords_u)
        IN  /\ Len(calls) = 1
            /\ calls[1].xyz[3] = -last_eval.z
            /\ calls[1].depth = source.top
            /\ IF HasPotency(source)
               THEN /\ calls[1].wrapper = "dc3d0wrapper"
                    /\ calls[1].potency = source.potency
                    /\ solver_grad_u
                          = MatScale(last_eval.solved.grad_u, <<1, -9>>)
                    /\ solver_u = VecScale(last_eval.solved.u, <<1, -6>>)
               ELSE /\ calls[1].wrapper = "dc3dwrapper"
                    /\ calls[1].strike_width
                          = <<0, get_strike_length(source.xstart,
                                                   source.xfinish,
                                                   source.ystart,
                                                   source.yfinish)>>
                    /\ calls[1].dip_width
                          = <<-get_downdip_width(source.top, source.bottom,
                                                 source.dipangle), 0>>
                    /\ calls[1].dislocation
                          = <<-source.rtlat, source.reverse, source.tensile>>
                    /\ solver_grad_u
                          = MatScale(last_eval.solved.grad_u, <<1, -3>>)
                    /\ solver_u = last_eval.solved.u

C5_Witness ==
    /\ last_eval # None
    /\ last_eval.source = FiniteSource
    /\ last_eval.z = 500
    /\ last_eval.x = 700
    /\ last_eval.solved.success = 0
    /\ last_eval.returned.calls[1].dislocation = <<-2, 3, 1>>

\* ------------------------------------------------------------------------
\* Claims about add_two_fault_dict_lists (checked under SpecAdd)
\* ------------------------------------------------------------------------
GeometryFields ==
    {"strike", "dip", "length", "width", "lon", "lat", "depth", "segment"}

\* C12: add_two_fault_dict_lists on lists of different lengths raises its
\* exception and produces no combined patch; on lists of equal length it
\* returns a list of that length whose i-th patch has the strike, dip,
\* length, width, lon, lat, depth and segment of the i-th patch of list1.
C12_MismatchRaisesElseGeometryOfFirst ==
    pc = "ended" =>
        IF Len(args.list1) # Len(args.list2)
        THEN error = "Exception" /\ returned = None
        ELSE /\ error = "none"
             /\ Len(returned) = Len(args.list1)
             /\ \A i \in 1..Len(returned) : \A f \in GeometryFields :
                   returned[i][f] = args.list1[i][f]

C12_Witness ==
    /\ pc = "ended"
    /\ error = "none"
    /\ Len(args.list1) = 2
    /\ Len(returned) = 2
    /\ args.list1[1].lon # args.list2[1].lon
    /\ returned[1].lon = args.list1[1].lon

\* ------------------------------------------------------------------------
\* Claims about get_strain_tensor (checked under SpecStrain)
\* ------------------------------------------------------------------------
\* C13: for every 3x3 displacement gradient G, get_strain_tensor(G) raises
\* nothing, leaves G unmodified, has entry [i][j] equal to half of
\* G[i][j] + G[j][i] (twice the entry is that sum) and is exactly symmetric.
C13_StrainIsSymmetricHalfSum ==
    [][(pc = "get_strain_tensor" /\ pc' = "ended")
         => /\ error' = "none"
            /\ args' = args
            /\ \A i, j \in 1..3 :
                  /\ DecAdd(returned'[i][j], returned'[i][j])
                        = DecAdd(args.dUidUj[i][j], args.dUidUj[j][i])
                  /\ returned'[i][j] = returned'[j][i]]_vars

C13_Witness ==
    /\ pc = "ended"
    /\ args.dUidUj[1][2] = <<-3, -6>>
    /\ args.dUidUj[2][1] = <<25, -7>>
    /\ args.dUidUj[1][3] # args.dUidUj[3][1]
    /\ returned[1][2] = <<-25, -8>>
    /\ returned[2][1] = <<-25, -8>>

\* ------------------------------------------------------------------------
\* Claims about get_stress_tensor (checked under SpecStress)
\* ------------------------------------------------------------------------
IsSymmetric(A) == \A i, j \in 1..3 : A[i][j] = A[j][i]

\* C14: get_stress_tensor(e, lamda, mu) is lamda * trace(e) * I + 2 * mu * e:
\* an off-diagonal entry is 2 * mu * e[i][j]; a diagonal entry less
\* 2 * mu * e[i][i] is lamda * (e00 + e11 + e22), the same for all three;
\* the result is symmetric whenever e is.
C14_StressIsIsotropicLinearElastic ==
    pc = "ended" =>
        LET e == args.eij
            two_mu_e(i, j) == DecMul(DecMul(Dec(2), args.mu), e[i][j])
            trace == DecAdd(e[1][1], DecAdd(e[2][2], e[3][3]))
        IN  /\ error = "none"
            /\ \A i, j \in 1..3 :
                  IF i = j
                  THEN DecAdd(returned[i][i], DecNeg(two_mu_e(i, i)))
                          = DecMul(trace, args.lamda)
                  ELSE returned[i][j] = two_mu_e(i, j)
            /\ IsSymmetric(e) => IsSymmetric(returned)

C14_Witness ==
    /\ pc = "ended"
    /\ IsSymmetric(args.eij)
    /\ args.eij[1][1] # args.eij[3][3]
    /\ args.eij[1][2] # args.eij[1][3]
    /\ args.lamda # args.mu
    /\ returned[1][1] # returned[3][3]

\* ------------------------------------------------------------------------
\* Claims about the Coulomb resolver (checked under SpecCoulomb)
\* ------------------------------------------------------------------------
\* the resolver's arguments seen on the receiver plane
Traction == MatVec(args.tau, args.rec_plane_normal)
DryNormal == Dot(args.rec_plane_normal, Traction)
ShearRtlat == Dot(args.rec_strike_vector, Traction)
ShearReverse == Dot(args.rec_dip_vector, Traction)
MeanStressTimesB == DecMul(DecDiv(np_trace(args.tau), 3), args.B)

\* C15: the resolver returns (effectiveNormal, shear, coulomb) in kPa:
\* 1000 * effectiveNormal + (trace(tau) / 3) * B is n.(tau n); 1000 * shear
\* is the first component of the rake rotation of (strike.(tau n),
\* dip.(tau n)), cos(rake) * rtlat - sin(rake) * reverse; and coulomb is
\* shear + friction * effectiveNormal, from the kPa values.
C15_ResolverFormula ==
    pc = "ended" =>
        /\ error = "none"
        /\ DecAdd(DecMul(returned[1], Dec(1000)), MeanStressTimesB)
              = DryNormal
        /\ DecMul(returned[2], Dec(1000))
              = DecAdd(DecMul(DecTrig(CosMilli(args.rake)), ShearRtlat),
                       DecNeg(DecMul(DecTrig(SinMilli(args.rake)),
                                     ShearReverse)))
        /\ returned[3]
              = DecAdd(returned[2], DecMul(args.friction, returned[1]))

C15_Witness ==
    /\ pc = "ended"
    /\ args.rec_plane_normal = VecTrig(<<0, 707, -707>>)
    /\ args.rake = 90
    /\ args.friction = <<4, -1>>
    /\ args.B = <<5, -1>>
    /\ ShearRtlat[1] # 0
    /\ ShearReverse[1] # 0
    /\ returned[1][1] # 0
    /\ returned[2][1] # 0
    /\ returned[3] # returned[2]

\* the traction on the receiver plane is a compressive normal stress with
\* zero shear
CompressiveNormalZeroShear ==
    /\ ShearRtlat = Dec(0)
    /\ ShearReverse = Dec(0)
    /\ DryNormal[1] < 0

\* the stress is a uniaxial compression along the plane normal
UniaxialAlongNormal ==
    /\ CompressiveNormalZeroShear
    /\ MatVec(args.tau, args.rec_strike_vector) = VecDec(<<0, 0, 0>>)
    /\ MatVec(args.tau, args.rec_dip_vector) = VecDec(<<0, 0, 0>>)

\* C16 as claimed: for any receiver orientation, friction and B, a purely
\* compressive normal stress with zero shear on the receiver plane yields
\* effectiveNormal < 0 and coulomb = friction * effectiveNormal.
C16_CompressionAlwaysClamps ==
    (pc = "ended" /\ CompressiveNormalZeroShear) =>
        /\ returned[1][1] < 0
        /\ returned[3] = DecMul(args.friction, returned[1])

\* C16 as amended: for any receiver orientation, friction and B, a purely
\* compressive normal stress with zero shear on the receiver plane yields
\* shear = 0 and coulomb = friction * effectiveNormal, with effectiveNormal
\* the compressive dry normal stress less (trace(tau) / 3) * B, in kPa;
\* effectiveNormal < 0 when B = 0 or when the stress is a uniaxial
\* compression along the plane normal (B from 0 to 1).
C16_CompressionClampsWhenUniaxialOrDry ==
    (pc = "ended" /\ CompressiveNormalZeroShear) =>
        /\ returned[2] = Dec(0)
        /\ returned[3] = DecMul(args.friction, returned[1])
        /\ DecMul(returned[1], Dec(1000))
              = DecAdd(DryNormal, DecNeg(MeanStressTimesB))
        /\ (args.B = Dec(0) \/ UniaxialAlongNormal) => returned[1][1] < 0

C16_Witness ==
    /\ pc = "ended"
    /\ UniaxialAlongNormal
    /\ args.rec_plane_normal = VecTrig(<<0, 707, -707>>)
    /\ args.B = Dec(1)
    /\ args.friction = <<4, -1>>
    /\ returned[1][1] < 0
    /\ returned[3][1] < 0

\* ------------------------------------------------------------------------
\* Claims about grid mode (checked under SpecGrid)
\* ------------------------------------------------------------------------
\* the column and row (1-based) of the grid node being computed
NodeColumn == ((pt - 1) % Len(grid.x)) + 1
NodeRow == ((pt - 1) \div Len(grid.x)) + 1

\* an array has a row per y sample and a column per x sample
HasGridShape(a, g) ==
    /\ Len(a) = Len(g.y)
    /\ \A ky \in 1..Len(a) : Len(a[ky]) = Len(g.x)

\* array b is array a with value v at the node being computed
NodeStored(a, b, v) ==
    \A ky \in 1..Len(b) : \A kx \in 1..Len(b[ky]) :
        b[ky][kx] = IF ky = NodeRow /\ kx = NodeColumn THEN v ELSE a[ky][kx]

\* C17: grid mode builds a grid of floor((finish - start) / increment)
\* samples along each axis and u, v, w arrays of shape (y samples, x
\* samples); at each node it evaluates every source, in order, at the node
\* and depth 0, adds the displacements up from zero, and stores the sums at
\* the node (zero when there are no sources), leaving the other nodes alone;
\* it returns, without error, when every node is done.
C17_GridSumsSourcesAtSurface ==
    [][/\ (grid' # None) =>
             /\ Len(grid'.x)
                   = (inputs.finish_gridx - inputs.start_gridx) \div inputs.xinc
             /\ Len(grid'.y)
                   = (inputs.finish_gridy - inputs.start_gridy) \div inputs.yinc
             /\ HasGridShape(grid'.u_displacements, grid')
             /\ HasGridShape(grid'.v_displacements, grid')
             /\ HasGridShape(grid'.w_displacements, grid')
       /\ (pc' = "grid_loop" /\ src' = 1) =>
             /\ acc'.u_disp = Dec(0)
             /\ acc'.v_disp = Dec(0)
             /\ acc'.w_disp = Dec(0)
       /\ (pc = "grid_loop" /\ n_evals' # n_evals) =>
             /\ last_eval'.source = inputs.source_object[src]
             /\ src' = src + 1
             /\ last_eval'.x = grid.x[NodeColumn]
             /\ last_eval'.y = grid.y[NodeRow]
             /\ last_eval'.z = 0
             /\ acc'.u_disp = DecAdd(acc.u_disp,
                                     last_eval'.returned.desired_coords_u[1])
             /\ acc'.v_disp = DecAdd(acc.v_disp,
                                     last_eval'.returned.desired_coords_u[2])
             /\ acc'.w_disp = DecAdd(acc.w_disp,
                                     last_eval'.returned.desired_coords_u[3])
             /\ grid' = grid
       /\ (pc = "grid_loop" /\ pt' # pt) =>
             /\ src = Len(inputs.source_object) + 1
             /\ pt' = pt + 1
             /\ NodeStored(grid.u_displacements, grid'.u_displacements,
                           acc.u_disp)
             /\ NodeStored(grid.v_displacements, grid'.v_displacements,
                           acc.v_disp)
             /\ NodeStored(grid.w_displacements, grid'.w_displacements,
                           acc.w_disp)
             /\ (inputs.source_object = <<>>) =>
                   /\ grid'.u_displacements[NodeRow][NodeColumn] = Dec(0)
                   /\ grid'.v_displacements[NodeRow][NodeColumn] = Dec(0)
                   /\ grid'.w_displacements[NodeRow][NodeColumn] = Dec(0)
       /\ (pc = "grid_loop" /\ pc' # pc) =>
             /\ pt = Len(grid.x) * Len(grid.y) + 1
             /\ error' = "none"
             /\ grid' = grid
      ]_vars

C17_Witness ==
    /\ pc = "ll_def"
    /\ error = "none"
    /\ Len(grid.x) = 2
    /\ Len(grid.y) = 1
    /\ Len(inputs.source_object) = 2
    /\ n_evals = 4
    /\ grid.u_displacements[1][1] # Dec(0)
    /\ grid.u_displacements[1][1] # grid.u_displacements[1][2]

\* ------------------------------------------------------------------------
\* Claims about the test harness (checked under SpecHarness)
\* ------------------------------------------------------------------------
\* C19: the strike computed by conversion_math.get_strike(dx, dy), called as
\* the harness calls it, is the clockwise-from-north azimuth of (dx, dy) in
\* [0, 360): 90 for (1, 0), 270 for (-1, 0), 180 for (0, -1) and 250 for
\* (cos(-160 deg), sin(-160 deg)).
C19_StrikeIsClockwiseAzimuth ==
    (pc = "ended" /\ "deltax" \in DOMAIN args) =>
        /\ error = "none"
        /\ returned = args.answer

====
